---- MODULE Spec2Model ----
(***************************************************************************)
(* Model of backend/app/__init__.py: the application factory create_app.  *)
(* Python objects are modelled with their identity: every dict lives on a *)
(* heap and is reached through a reference, so that aliasing between the  *)
(* caller's overlay, the configuration and the user_graphs stores of      *)
(* different instances is something the model can get wrong.              *)
(***************************************************************************)
EXTENDS Integers, Sequences, FiniteSets, TLC

(* ---------------------------- bounds ---------------------------------- *)
MaxCalls == 2          \* create_app calls in one run
MaxOverlayLen == 2     \* entries of an overlay dict passed to create_app
NumHandlers == 2       \* request handlers running concurrently
MaxGraphValue == 1     \* cap of the value a handler stores for a user

(* ------------------------- Python values ------------------------------ *)
\* A Python str is the sequence of the code points of its characters, so
\* that str.isupper() is computed and not looked up.
PyStr(s) == [type |-> "str", str |-> s, int |-> 0, ref |-> 0]
PyInt(n) == [type |-> "int", str |-> <<>>, int |-> n, ref |-> 0]
PyNone == [type |-> "NoneType", str |-> <<>>, int |-> 0, ref |-> 0]
PyDict(r) == [type |-> "dict", str |-> <<>>, int |-> 0, ref |-> r]
\* A bytes object is the sequence of its byte values.
PyBytes(s) == [type |-> "bytes", str |-> s, int |-> 0, ref |-> 0]

\* The code points of the upper-case characters, those c with
\* chr(c).isupper() (Unicode 14.0.0): single code points and
\* <<first, last>> ranges.
UpperSingles ==
    {256, 258, 260, 262, 264, 266, 268, 270, 272, 274, 276, 278, 280,
     282, 284, 286, 288, 290, 292, 294, 296, 298, 300, 302, 304, 306,
     308, 310, 313, 315, 317, 319, 321, 323, 325, 327, 330, 332, 334,
     336, 338, 340, 342, 344, 346, 348, 350, 352, 354, 356, 358, 360,
     362, 364, 366, 368, 370, 372, 374, 379, 381, 388, 418, 420, 425,
     428, 437, 444, 452, 455, 458, 461, 463, 465, 467, 469, 471, 473,
     475, 478, 480, 482, 484, 486, 488, 490, 492, 494, 497, 500, 506,
     508, 510, 512, 514, 516, 518, 520, 522, 524, 526, 528, 530, 532,
     534, 536, 538, 540, 542, 544, 546, 548, 550, 552, 554, 556, 558,
     560, 562, 577, 584, 586, 588, 590, 880, 882, 886, 895, 902, 908,
     975, 984, 986, 988, 990, 992, 994, 996, 998, 1000, 1002, 1004,
     1006, 1012, 1015, 1120, 1122, 1124, 1126, 1128, 1130, 1132, 1134,
     1136, 1138, 1140, 1142, 1144, 1146, 1148, 1150, 1152, 1162, 1164,
     1166, 1168, 1170, 1172, 1174, 1176, 1178, 1180, 1182, 1184, 1186,
     1188, 1190, 1192, 1194, 1196, 1198, 1200, 1202, 1204, 1206, 1208,
     1210, 1212, 1214, 1219, 1221, 1223, 1225, 1227, 1229, 1232, 1234,
     1236, 1238, 1240, 1242, 1244, 1246, 1248, 1250, 1252, 1254, 1256,
     1258, 1260, 1262, 1264, 1266, 1268, 1270, 1272, 1274, 1276, 1278,
     1280, 1282, 1284, 1286, 1288, 1290, 1292, 1294, 1296, 1298, 1300,
     1302, 1304, 1306, 1308, 1310, 1312, 1314, 1316, 1318, 1320, 1322,
     1324, 1326, 4295, 4301, 7680, 7682, 7684, 7686, 7688, 7690, 7692,
     7694, 7696, 7698, 7700, 7702, 7704, 7706, 7708, 7710, 7712, 7714,
     7716, 7718, 7720, 7722, 7724, 7726, 7728, 7730, 7732, 7734, 7736,
     7738, 7740, 7742, 7744, 7746, 7748, 7750, 7752, 7754, 7756, 7758,
     7760, 7762, 7764, 7766, 7768, 7770, 7772, 7774, 7776, 7778, 7780,
     7782, 7784, 7786, 7788, 7790, 7792, 7794, 7796, 7798, 7800, 7802,
     7804, 7806, 7808, 7810, 7812, 7814, 7816, 7818, 7820, 7822, 7824,
     7826, 7828, 7838, 7840, 7842, 7844, 7846, 7848, 7850, 7852, 7854,
     7856, 7858, 7860, 7862, 7864, 7866, 7868, 7870, 7872, 7874, 7876,
     7878, 7880, 7882, 7884, 7886, 7888, 7890, 7892, 7894, 7896, 7898,
     7900, 7902, 7904, 7906, 7908, 7910, 7912, 7914, 7916, 7918, 7920,
     7922, 7924, 7926, 7928, 7930, 7932, 7934, 8025, 8027, 8029, 8031,
     8450, 8455, 8469, 8484, 8486, 8488, 8517, 8579, 11360, 11367,
     11369, 11371, 11378, 11381, 11394, 11396, 11398, 11400, 11402,
     11404, 11406, 11408, 11410, 11412, 11414, 11416, 11418, 11420,
     11422, 11424, 11426, 11428, 11430, 11432, 11434, 11436, 11438,
     11440, 11442, 11444, 11446, 11448, 11450, 11452, 11454, 11456,
     11458, 11460, 11462, 11464, 11466, 11468, 11470, 11472, 11474,
     11476, 11478, 11480, 11482, 11484, 11486, 11488, 11490, 11499,
     11501, 11506, 42560, 42562, 42564, 42566, 42568, 42570, 42572,
     42574, 42576, 42578, 42580, 42582, 42584, 42586, 42588, 42590,
     42592, 42594, 42596, 42598, 42600, 42602, 42604, 42624, 42626,
     42628, 42630, 42632, 42634, 42636, 42638, 42640, 42642, 42644,
     42646, 42648, 42650, 42786, 42788, 42790, 42792, 42794, 42796,
     42798, 42802, 42804, 42806, 42808, 42810, 42812, 42814, 42816,
     42818, 42820, 42822, 42824, 42826, 42828, 42830, 42832, 42834,
     42836, 42838, 42840, 42842, 42844, 42846, 42848, 42850, 42852,
     42854, 42856, 42858, 42860, 42862, 42873, 42875, 42880, 42882,
     42884, 42886, 42891, 42893, 42896, 42898, 42902, 42904, 42906,
     42908, 42910, 42912, 42914, 42916, 42918, 42920, 42934, 42936,
     42938, 42940, 42942, 42944, 42946, 42953, 42960, 42966, 42968,
     42997, 119964, 119970, 120134, 120778}
UpperRanges ==
    {<<65, 90>>, <<192, 214>>, <<216, 222>>, <<376, 377>>, <<385, 386>>,
     <<390, 391>>, <<393, 395>>, <<398, 401>>, <<403, 404>>, <<406,
     408>>, <<412, 413>>, <<415, 416>>, <<422, 423>>, <<430, 431>>,
     <<433, 435>>, <<439, 440>>, <<502, 504>>, <<570, 571>>, <<573,
     574>>, <<579, 582>>, <<904, 906>>, <<910, 911>>, <<913, 929>>,
     <<931, 939>>, <<978, 980>>, <<1017, 1018>>, <<1021, 1071>>, <<1216,
     1217>>, <<1329, 1366>>, <<4256, 4293>>, <<5024, 5109>>, <<7312,
     7354>>, <<7357, 7359>>, <<7944, 7951>>, <<7960, 7965>>, <<7976,
     7983>>, <<7992, 7999>>, <<8008, 8013>>, <<8040, 8047>>, <<8120,
     8123>>, <<8136, 8139>>, <<8152, 8155>>, <<8168, 8172>>, <<8184,
     8187>>, <<8459, 8461>>, <<8464, 8466>>, <<8473, 8477>>, <<8490,
     8493>>, <<8496, 8499>>, <<8510, 8511>>, <<8544, 8559>>, <<9398,
     9423>>, <<11264, 11311>>, <<11362, 11364>>, <<11373, 11376>>,
     <<11390, 11392>>, <<42877, 42878>>, <<42922, 42926>>, <<42928,
     42932>>, <<42948, 42951>>, <<65313, 65338>>, <<66560, 66599>>,
     <<66736, 66771>>, <<66928, 66938>>, <<66940, 66954>>, <<66956,
     66962>>, <<66964, 66965>>, <<68736, 68786>>, <<71840, 71871>>,
     <<93760, 93791>>, <<119808, 119833>>, <<119860, 119885>>, <<119912,
     119937>>, <<119966, 119967>>, <<119973, 119974>>, <<119977,
     119980>>, <<119982, 119989>>, <<120016, 120041>>, <<120068,
     120069>>, <<120071, 120074>>, <<120077, 120084>>, <<120086,
     120092>>, <<120120, 120121>>, <<120123, 120126>>, <<120128,
     120132>>, <<120138, 120144>>, <<120172, 120197>>, <<120224,
     120249>>, <<120276, 120301>>, <<120328, 120353>>, <<120380,
     120405>>, <<120432, 120457>>, <<120488, 120512>>, <<120546,
     120570>>, <<120604, 120628>>, <<120662, 120686>>, <<120720,
     120744>>, <<125184, 125217>>, <<127280, 127305>>, <<127312,
     127337>>, <<127344, 127369>>}
UpperChars ==
    UpperSingles \cup UNION {r[1]..r[2] : r \in UpperRanges}

\* The code points of the lower-case and title-case characters, those c
\* that make ('A' + chr(c)).isupper() False.
LowerSingles ==
    {170, 181, 186, 257, 259, 261, 263, 265, 267, 269, 271, 273, 275,
     277, 279, 281, 283, 285, 287, 289, 291, 293, 295, 297, 299, 301,
     303, 305, 307, 309, 314, 316, 318, 320, 322, 324, 326, 331, 333,
     335, 337, 339, 341, 343, 345, 347, 349, 351, 353, 355, 357, 359,
     361, 363, 365, 367, 369, 371, 373, 375, 378, 380, 387, 389, 392,
     402, 405, 414, 417, 419, 421, 424, 429, 432, 436, 438, 462, 464,
     466, 468, 470, 472, 474, 479, 481, 483, 485, 487, 489, 491, 493,
     501, 505, 507, 509, 511, 513, 515, 517, 519, 521, 523, 525, 527,
     529, 531, 533, 535, 537, 539, 541, 543, 545, 547, 549, 551, 553,
     555, 557, 559, 561, 572, 578, 583, 585, 587, 589, 837, 881, 883,
     887, 912, 985, 987, 989, 991, 993, 995, 997, 999, 1001, 1003, 1005,
     1013, 1016, 1121, 1123, 1125, 1127, 1129, 1131, 1133, 1135, 1137,
     1139, 1141, 1143, 1145, 1147, 1149, 1151, 1153, 1163, 1165, 1167,
     1169, 1171, 1173, 1175, 1177, 1179, 1181, 1183, 1185, 1187, 1189,
     1191, 1193, 1195, 1197, 1199, 1201, 1203, 1205, 1207, 1209, 1211,
     1213, 1215, 1218, 1220, 1222, 1224, 1226, 1228, 1233, 1235, 1237,
     1239, 1241, 1243, 1245, 1247, 1249, 1251, 1253, 1255, 1257, 1259,
     1261, 1263, 1265, 1267, 1269, 1271, 1273, 1275, 1277, 1279, 1281,
     1283, 1285, 1287, 1289, 1291, 1293, 1295, 1297, 1299, 1301, 1303,
     1305, 1307, 1309, 1311, 1313, 1315, 1317, 1319, 1321, 1323, 1325,
     1327, 7681, 7683, 7685, 7687, 7689, 7691, 7693, 7695, 7697, 7699,
     7701, 7703, 7705, 7707, 7709, 7711, 7713, 7715, 7717, 7719, 7721,
     7723, 7725, 7727, 7729, 7731, 7733, 7735, 7737, 7739, 7741, 7743,
     7745, 7747, 7749, 7751, 7753, 7755, 7757, 7759, 7761, 7763, 7765,
     7767, 7769, 7771, 7773, 7775, 7777, 7779, 7781, 7783, 7785, 7787,
     7789, 7791, 7793, 7795, 7797, 7799, 7801, 7803, 7805, 7807, 7809,
     7811, 7813, 7815, 7817, 7819, 7821, 7823, 7825, 7827, 7839, 7841,
     7843, 7845, 7847, 7849, 7851, 7853, 7855, 7857, 7859, 7861, 7863,
     7865, 7867, 7869, 7871, 7873, 7875, 7877, 7879, 7881, 7883, 7885,
     7887, 7889, 7891, 7893, 7895, 7897, 7899, 7901, 7903, 7905, 7907,
     7909, 7911, 7913, 7915, 7917, 7919, 7921, 7923, 7925, 7927, 7929,
     7931, 7933, 8124, 8126, 8140, 8188, 8305, 8319, 8458, 8467, 8495,
     8500, 8505, 8526, 8580, 11361, 11368, 11370, 11372, 11377, 11393,
     11395, 11397, 11399, 11401, 11403, 11405, 11407, 11409, 11411,
     11413, 11415, 11417, 11419, 11421, 11423, 11425, 11427, 11429,
     11431, 11433, 11435, 11437, 11439, 11441, 11443, 11445, 11447,
     11449, 11451, 11453, 11455, 11457, 11459, 11461, 11463, 11465,
     11467, 11469, 11471, 11473, 11475, 11477, 11479, 11481, 11483,
     11485, 11487, 11489, 11500, 11502, 11507, 11559, 11565, 42561,
     42563, 42565, 42567, 42569, 42571, 42573, 42575, 42577, 42579,
     42581, 42583, 42585, 42587, 42589, 42591, 42593, 42595, 42597,
     42599, 42601, 42603, 42605, 42625, 42627, 42629, 42631, 42633,
     42635, 42637, 42639, 42641, 42643, 42645, 42647, 42649, 42787,
     42789, 42791, 42793, 42795, 42797, 42803, 42805, 42807, 42809,
     42811, 42813, 42815, 42817, 42819, 42821, 42823, 42825, 42827,
     42829, 42831, 42833, 42835, 42837, 42839, 42841, 42843, 42845,
     42847, 42849, 42851, 42853, 42855, 42857, 42859, 42861, 42874,
     42876, 42879, 42881, 42883, 42885, 42887, 42892, 42894, 42897,
     42903, 42905, 42907, 42909, 42911, 42913, 42915, 42917, 42919,
     42921, 42927, 42933, 42935, 42937, 42939, 42941, 42943, 42945,
     42947, 42952, 42954, 42961, 42963, 42965, 42967, 42969, 42998,
     67456, 119995, 120779}
LowerRanges ==
    {<<97, 122>>, <<223, 246>>, <<248, 255>>, <<311, 312>>, <<328,
     329>>, <<382, 384>>, <<396, 397>>, <<409, 411>>, <<426, 427>>,
     <<441, 442>>, <<445, 447>>, <<453, 454>>, <<456, 457>>, <<459,
     460>>, <<476, 477>>, <<495, 496>>, <<498, 499>>, <<563, 569>>,
     <<575, 576>>, <<591, 659>>, <<661, 696>>, <<704, 705>>, <<736,
     740>>, <<890, 893>>, <<940, 974>>, <<976, 977>>, <<981, 983>>,
     <<1007, 1011>>, <<1019, 1020>>, <<1072, 1119>>, <<1230, 1231>>,
     <<1376, 1416>>, <<4304, 4346>>, <<4349, 4351>>, <<5112, 5117>>,
     <<7296, 7304>>, <<7424, 7615>>, <<7829, 7837>>, <<7935, 7943>>,
     <<7952, 7957>>, <<7968, 7975>>, <<7984, 7991>>, <<8000, 8005>>,
     <<8016, 8023>>, <<8032, 8039>>, <<8048, 8061>>, <<8064, 8116>>,
     <<8118, 8119>>, <<8130, 8132>>, <<8134, 8135>>, <<8144, 8147>>,
     <<8150, 8151>>, <<8160, 8167>>, <<8178, 8180>>, <<8182, 8183>>,
     <<8336, 8348>>, <<8462, 8463>>, <<8508, 8509>>, <<8518, 8521>>,
     <<8560, 8575>>, <<9424, 9449>>, <<11312, 11359>>, <<11365, 11366>>,
     <<11379, 11380>>, <<11382, 11389>>, <<11491, 11492>>, <<11520,
     11557>>, <<42651, 42653>>, <<42799, 42801>>, <<42863, 42872>>,
     <<42899, 42901>>, <<43000, 43002>>, <<43824, 43866>>, <<43868,
     43880>>, <<43888, 43967>>, <<64256, 64262>>, <<64275, 64279>>,
     <<65345, 65370>>, <<66600, 66639>>, <<66776, 66811>>, <<66967,
     66977>>, <<66979, 66993>>, <<66995, 67001>>, <<67003, 67004>>,
     <<67459, 67461>>, <<67463, 67504>>, <<67506, 67514>>, <<68800,
     68850>>, <<71872, 71903>>, <<93792, 93823>>, <<119834, 119859>>,
     <<119886, 119892>>, <<119894, 119911>>, <<119938, 119963>>,
     <<119990, 119993>>, <<119997, 120003>>, <<120005, 120015>>,
     <<120042, 120067>>, <<120094, 120119>>, <<120146, 120171>>,
     <<120198, 120223>>, <<120250, 120275>>, <<120302, 120327>>,
     <<120354, 120379>>, <<120406, 120431>>, <<120458, 120485>>,
     <<120514, 120538>>, <<120540, 120545>>, <<120572, 120596>>,
     <<120598, 120603>>, <<120630, 120654>>, <<120656, 120661>>,
     <<120688, 120712>>, <<120714, 120719>>, <<120746, 120770>>,
     <<120772, 120777>>, <<122624, 122633>>, <<122635, 122654>>,
     <<125218, 125251>>}
LowerChars ==
    LowerSingles \cup UNION {r[1]..r[2] : r \in LowerRanges}

\* str.isupper(): no lower-case or title-case character and at least one
\* upper-case character.
isupper(s) ==
    /\ \A i \in 1..Len(s) : s[i] \notin LowerChars
    /\ \E i \in 1..Len(s) : s[i] \in UpperChars

\* 'SECRET_KEY'
\* bytes.isupper(): the same test over the ASCII letters only.
bytes_isupper(s) ==
    /\ \A i \in 1..Len(s) : s[i] \notin 97..122
    /\ \E i \in 1..Len(s) : s[i] \in 65..90

SECRET_KEY == PyStr(<<83, 69, 67, 82, 69, 84, 95, 75, 69, 89>>)
\* 'secret_key'
secret_key == PyStr(<<115, 101, 99, 114, 101, 116, 95, 107, 101, 121>>)
\* 'dev'
dev == PyStr(<<100, 101, 118>>)
\* 'prod-secret'
prod_secret == PyStr(<<112, 114, 111, 100, 45, 115, 101, 99, 114, 101, 116>>)
empty_str == PyStr(<<>>)
\* Keys with a cased character outside ASCII: 'A' + U+00DF is not upper
\* case (sharp s is lower case), U+00C9 (E acute) is.
A_sharp_s == PyStr(<<65, 223>>)
\* b'key', a key that is no str and has an isupper method
bytes_key == PyBytes(<<107, 101, 121>>)
\* 'CORS_RESOURCES', the setting flask_cors reads for the paths it covers
CORS_RESOURCES == PyStr(<<67, 79, 82, 83, 95, 82, 69, 83, 79, 85, 82, 67, 69, 83>>)
\* The request paths '/graph' and '/missing'
graph_path == <<47, 103, 114, 97, 112, 104>>
missing_path == <<47, 109, 105, 115, 115, 105, 110, 103>>
\* '/GRAPH'
GRAPH_path == <<47, 71, 82, 65, 80, 72>>
\* '/static/<path:filename>'
static_rule == <<47, 115, 116, 97, 116, 105, 99, 47, 60, 112, 97, 116, 104, 58, 102, 105, 108, 101, 110, 97, 109, 101, 62>>
\* '/*', the default resources of flask_cors
default_resources == <<47, 42>>
E_acute == PyStr(<<201>>)

(* ----------------------- dict (insertion ordered) --------------------- *)
\* A dict is the sequence of its <<key, value>> items, keys unique.
DictHas(d, k) == \E i \in 1..Len(d) : d[i][1] = k
DictGet(d, k) == d[CHOOSE i \in 1..Len(d) : d[i][1] = k][2]
DictSet(d, k, v) ==
    IF DictHas(d, k)
    THEN [i \in 1..Len(d) |-> IF d[i][1] = k THEN <<k, v>> ELSE d[i]]
    ELSE Append(d, <<k, v>>)

\* The heap maps the identity of every live dict to its items.
NewId(h) == CHOOSE n \in 1..(Cardinality(DOMAIN h) + 1) :
               /\ n \notin DOMAIN h
               /\ \A m \in 1..(n - 1) : m \in DOMAIN h
Alloc(h, d) == h @@ (NewId(h) :> d)
Free(h, ids) == [i \in DOMAIN h \ ids |-> h[i]]

\* Variant: the test `test_config is not None` in place of truthiness.
Truthy_is_not_none(h, v) == v.type # "NoneType"

\* bool(v): the truth value the `if test_config:` test uses.
Truthy(h, v) ==
    CASE v.type = "NoneType" -> FALSE
      [] v.type = "int" -> v.int # 0
      [] v.type = "str" -> Len(v.str) > 0
      [] v.type = "dict" -> Len(h[v.ref]) > 0

(* --------------------- Flask objects used by create_app --------------- *)
\* flask.Flask.default_config, restricted to the keys under study.
default_config == << <<SECRET_KEY, PyNone>> >>

NoApp == [config |-> 0, user_graphs |-> 0, after_request_funcs |-> <<>>,
          blueprints |-> <<>>, url_map |-> {}]

\* Flask(__name__): a new application object with its own Config dict, the
\* static route, no after_request function and no blueprint.
Flask(h) ==
    [heap |-> Alloc(h, default_config),
     app |-> [config |-> NewId(h), user_graphs |-> 0,
              after_request_funcs |-> <<>>, blueprints |-> <<>>,
              url_map |-> {[rule |-> static_rule,
                            endpoint |-> "static"]}]]

\* Variant: the loop without the key.isupper() filter.
RECURSIVE store_upper_nofilter(_, _)
store_upper_nofilter(cfg, items) ==
    IF items = <<>> THEN [exc |-> "none", cfg |-> cfg]
    ELSE LET k == Head(items)[1]
             v == Head(items)[2]
         IN IF k.type \notin {"str", "bytes"}
            THEN [exc |-> "AttributeError", cfg |-> cfg]
            ELSE store_upper_nofilter(DictSet(cfg, k, v), Tail(items))

\* key.isupper() for a str or a bytes key.
key_isupper(k) ==
    IF k.type = "bytes" THEN bytes_isupper(k.str) ELSE isupper(k.str)

\* The loop of Config.from_mapping: every item whose key is upper case is
\* stored; key.isupper() on a key without that method (a number) raises
\* AttributeError and leaves the items stored so far.
RECURSIVE store_upper(_, _)
store_upper(cfg, items) ==
    IF items = <<>> THEN [exc |-> "none", cfg |-> cfg]
    ELSE LET k == Head(items)[1]
             v == Head(items)[2]
         IN IF k.type \notin {"str", "bytes"}
            THEN [exc |-> "AttributeError", cfg |-> cfg]
            ELSE IF key_isupper(k)
                 THEN store_upper(DictSet(cfg, k, v), Tail(items))
                 ELSE store_upper(cfg, Tail(items))

\* dict.update(other) on a fresh dict, then with the keyword arguments.
RECURSIVE dict_update(_, _)
dict_update(d, items) ==
    IF items = <<>> THEN d
    ELSE dict_update(DictSet(d, Head(items)[1], Head(items)[2]), Tail(items))

\* mappings.update(mapping) on the fresh dict of from_mapping: a dict is
\* copied; a number is not iterable (TypeError); a str is iterated character
\* by character and a character is no key-value pair (ValueError), so only
\* the empty str passes, adding nothing.  None is not passed to update.
update_arg(h, mapping) ==
    CASE mapping.type = "dict" ->
            [exc |-> "none", items |-> dict_update(<<>>, h[mapping.ref])]
      [] mapping.type = "NoneType" -> [exc |-> "none", items |-> <<>>]
      [] mapping.type = "str" ->
            [exc |-> IF Len(mapping.str) = 0 THEN "none" ELSE "ValueError",
             items |-> <<>>]
      [] mapping.type = "int" -> [exc |-> "TypeError", items |-> <<>>]

\* Variant: setdefault semantics, a key already configured keeps its value.
from_mapping_keep_existing(h, cfgref, mapping, kwargs) ==
    IF update_arg(h, mapping).exc # "none"
    THEN [exc |-> update_arg(h, mapping).exc, heap |-> h]
    ELSE LET copied == update_arg(h, mapping).items
             mappings == dict_update(copied, kwargs)
             fresh == SelectSeq(mappings,
                         LAMBDA it : ~DictHas(h[cfgref], it[1])
                                     \/ DictGet(h[cfgref], it[1]) = PyNone)
             r == store_upper(h[cfgref], fresh)
         IN [exc |-> r.exc, heap |-> [h EXCEPT ![cfgref] = r.cfg]]

\* Variant: the mapping replaces the configuration instead of updating it.
from_mapping_replace(h, cfgref, mapping, kwargs) ==
    IF update_arg(h, mapping).exc # "none"
    THEN [exc |-> update_arg(h, mapping).exc, heap |-> h]
    ELSE LET copied == update_arg(h, mapping).items
             mappings == dict_update(copied, kwargs)
             r == store_upper(<<>>, mappings)
         IN [exc |-> r.exc, heap |-> [h EXCEPT ![cfgref] = r.cfg]]

\* Variant: the entries are popped from the caller's mapping.
from_mapping_consume(h, cfgref, mapping, kwargs) ==
    IF update_arg(h, mapping).exc # "none"
    THEN [exc |-> update_arg(h, mapping).exc, heap |-> h]
    ELSE LET copied == update_arg(h, mapping).items
             mappings == dict_update(copied, kwargs)
             r == store_upper(h[cfgref], mappings)
             h1 == [h EXCEPT ![cfgref] = r.cfg]
         IN [exc |-> r.exc,
             heap |-> IF mapping.type = "dict"
                      THEN [h1 EXCEPT ![mapping.ref] = <<>>] ELSE h1]

\* app.config.from_mapping(mapping, **kwargs): copies the mapping into a
\* new dict (update_arg, which may raise), adds the keyword
\* arguments, and stores the upper-case keys in the Config dict cfgref.
\* The mapping itself is only read.
from_mapping(h, cfgref, mapping, kwargs) ==
    IF update_arg(h, mapping).exc # "none"
    THEN [exc |-> update_arg(h, mapping).exc, heap |-> h]
    ELSE LET copied == update_arg(h, mapping).items
             mappings == dict_update(copied, kwargs)
             r == store_upper(h[cfgref], mappings)
         IN [exc |-> r.exc, heap |-> [h EXCEPT ![cfgref] = r.cfg]]

\* flask_cors re_fix: the pattern '*' stands for '.*'.
re_fix(reg) == IF reg = <<42>> THEN <<46, 42>> ELSE reg

\* flask_cors probably_regex: the pattern has one of * \ ] ? $ ^ [ ( ).
probably_regex(reg) ==
    \E i \in 1..Len(reg) : reg[i] \in {42, 92, 93, 63, 36, 94, 91, 40, 41}

\* The simple lower-case mapping of the code points (Unicode 14.0.0), the
\* one chr(c).lower() and re.IGNORECASE use: <<first, last, step, d>> says
\* that first, first + step, ..., last each map to themselves plus d.
ToLowerRanges ==
    {<<65, 90, 1, 32>>, <<192, 214, 1, 32>>, <<216, 222, 1, 32>>,
     <<256, 302, 2, 1>>, <<304, 304, 1, -199>>, <<306, 310, 2, 1>>,
     <<313, 327, 2, 1>>, <<330, 374, 2, 1>>, <<376, 376, 1, -121>>,
     <<377, 381, 2, 1>>, <<385, 385, 1, 210>>, <<386, 388, 2, 1>>,
     <<390, 390, 1, 206>>, <<391, 391, 1, 1>>, <<393, 394, 1, 205>>,
     <<395, 395, 1, 1>>, <<398, 398, 1, 79>>, <<399, 399, 1, 202>>,
     <<400, 400, 1, 203>>, <<401, 401, 1, 1>>, <<403, 403, 1, 205>>,
     <<404, 404, 1, 207>>, <<406, 406, 1, 211>>, <<407, 407, 1, 209>>,
     <<408, 408, 1, 1>>, <<412, 412, 1, 211>>, <<413, 413, 1, 213>>,
     <<415, 415, 1, 214>>, <<416, 420, 2, 1>>, <<422, 422, 1, 218>>,
     <<423, 423, 1, 1>>, <<425, 425, 1, 218>>, <<428, 428, 1, 1>>,
     <<430, 430, 1, 218>>, <<431, 431, 1, 1>>, <<433, 434, 1, 217>>,
     <<435, 437, 2, 1>>, <<439, 439, 1, 219>>, <<440, 440, 1, 1>>,
     <<444, 444, 1, 1>>, <<452, 452, 1, 2>>, <<453, 453, 1, 1>>,
     <<455, 455, 1, 2>>, <<456, 456, 1, 1>>, <<458, 458, 1, 2>>,
     <<459, 475, 2, 1>>, <<478, 494, 2, 1>>, <<497, 497, 1, 2>>,
     <<498, 500, 2, 1>>, <<502, 502, 1, -97>>, <<503, 503, 1, -56>>,
     <<504, 542, 2, 1>>, <<544, 544, 1, -130>>, <<546, 562, 2, 1>>,
     <<570, 570, 1, 10795>>, <<571, 571, 1, 1>>, <<573, 573, 1, -163>>,
     <<574, 574, 1, 10792>>, <<577, 577, 1, 1>>, <<579, 579, 1, -195>>,
     <<580, 580, 1, 69>>, <<581, 581, 1, 71>>, <<582, 590, 2, 1>>,
     <<880, 882, 2, 1>>, <<886, 886, 1, 1>>, <<895, 895, 1, 116>>,
     <<902, 902, 1, 38>>, <<904, 906, 1, 37>>, <<908, 908, 1, 64>>,
     <<910, 911, 1, 63>>, <<913, 929, 1, 32>>, <<931, 939, 1, 32>>,
     <<975, 975, 1, 8>>, <<984, 1006, 2, 1>>, <<1012, 1012, 1, -60>>,
     <<1015, 1015, 1, 1>>, <<1017, 1017, 1, -7>>, <<1018, 1018, 1, 1>>,
     <<1021, 1023, 1, -130>>, <<1024, 1039, 1, 80>>, <<1040, 1071, 1, 32>>,
     <<1120, 1152, 2, 1>>, <<1162, 1214, 2, 1>>, <<1216, 1216, 1, 15>>,
     <<1217, 1229, 2, 1>>, <<1232, 1326, 2, 1>>, <<1329, 1366, 1, 48>>,
     <<4256, 4293, 1, 7264>>, <<4295, 4295, 1, 7264>>,
     <<4301, 4301, 1, 7264>>, <<5024, 5103, 1, 38864>>,
     <<5104, 5109, 1, 8>>, <<7312, 7354, 1, -3008>>,
     <<7357, 7359, 1, -3008>>, <<7680, 7828, 2, 1>>,
     <<7838, 7838, 1, -7615>>, <<7840, 7934, 2, 1>>, <<7944, 7951, 1, -8>>,
     <<7960, 7965, 1, -8>>, <<7976, 7983, 1, -8>>, <<7992, 7999, 1, -8>>,
     <<8008, 8013, 1, -8>>, <<8025, 8031, 2, -8>>, <<8040, 8047, 1, -8>>,
     <<8072, 8079, 1, -8>>, <<8088, 8095, 1, -8>>, <<8104, 8111, 1, -8>>,
     <<8120, 8121, 1, -8>>, <<8122, 8123, 1, -74>>, <<8124, 8124, 1, -9>>,
     <<8136, 8139, 1, -86>>, <<8140, 8140, 1, -9>>, <<8152, 8153, 1, -8>>,
     <<8154, 8155, 1, -100>>, <<8168, 8169, 1, -8>>,
     <<8170, 8171, 1, -112>>, <<8172, 8172, 1, -7>>,
     <<8184, 8185, 1, -128>>, <<8186, 8187, 1, -126>>,
     <<8188, 8188, 1, -9>>, <<8486, 8486, 1, -7517>>,
     <<8490, 8490, 1, -8383>>, <<8491, 8491, 1, -8262>>,
     <<8498, 8498, 1, 28>>, <<8544, 8559, 1, 16>>, <<8579, 8579, 1, 1>>,
     <<9398, 9423, 1, 26>>, <<11264, 11311, 1, 48>>, <<11360, 11360, 1, 1>>,
     <<11362, 11362, 1, -10743>>, <<11363, 11363, 1, -3814>>,
     <<11364, 11364, 1, -10727>>, <<11367, 11371, 2, 1>>,
     <<11373, 11373, 1, -10780>>, <<11374, 11374, 1, -10749>>,
     <<11375, 11375, 1, -10783>>, <<11376, 11376, 1, -10782>>,
     <<11378, 11378, 1, 1>>, <<11381, 11381, 1, 1>>,
     <<11390, 11391, 1, -10815>>, <<11392, 11490, 2, 1>>,
     <<11499, 11501, 2, 1>>, <<11506, 11506, 1, 1>>, <<42560, 42604, 2, 1>>,
     <<42624, 42650, 2, 1>>, <<42786, 42798, 2, 1>>, <<42802, 42862, 2, 1>>,
     <<42873, 42875, 2, 1>>, <<42877, 42877, 1, -35332>>,
     <<42878, 42886, 2, 1>>, <<42891, 42891, 1, 1>>,
     <<42893, 42893, 1, -42280>>, <<42896, 42898, 2, 1>>,
     <<42902, 42920, 2, 1>>, <<42922, 42922, 1, -42308>>,
     <<42923, 42923, 1, -42319>>, <<42924, 42924, 1, -42315>>,
     <<42925, 42925, 1, -42305>>, <<42926, 42926, 1, -42308>>,
     <<42928, 42928, 1, -42258>>, <<42929, 42929, 1, -42282>>,
     <<42930, 42930, 1, -42261>>, <<42931, 42931, 1, 928>>,
     <<42932, 42946, 2, 1>>, <<42948, 42948, 1, -48>>,
     <<42949, 42949, 1, -42307>>, <<42950, 42950, 1, -35384>>,
     <<42951, 42953, 2, 1>>, <<42960, 42960, 1, 1>>, <<42966, 42968, 2, 1>>,
     <<42997, 42997, 1, 1>>, <<65313, 65338, 1, 32>>,
     <<66560, 66599, 1, 40>>, <<66736, 66771, 1, 40>>,
     <<66928, 66964, 2, 39>>, <<66929, 66937, 2, 39>>,
     <<66941, 66953, 2, 39>>, <<66957, 66961, 2, 39>>,
     <<66965, 66965, 1, 39>>, <<68736, 68786, 1, 64>>,
     <<71840, 71871, 1, 32>>, <<93760, 93791, 1, 32>>,
     <<125184, 125217, 1, 34>>}
ToLower ==
    [c \in UNION {{r[1] + r[3] * k : k \in 0..((r[2] - r[1]) \div r[3])}
                  : r \in ToLowerRanges} |->
        c + (CHOOSE r \in ToLowerRanges :
                /\ r[1] <= c /\ c <= r[2]
                /\ (c - r[1]) % r[3] = 0)[4]]
tolower(c) == IF c \in DOMAIN ToLower THEN ToLower[c] ELSE c

\* The cased code points (Unicode property Cased): single code points and
\* <<first, last>> ranges.
CasedSingles ==
    {170, 181, 186, 837, 895, 902, 908, 4295, 4301, 8025, 8027, 8029, 8126,
     8305, 8319, 8450, 8455, 8469, 8484, 8486, 8488, 8505, 8526, 11559,
     11565, 42963, 67456, 119970, 119995, 120134}
CasedRanges ==
    {<<65, 90>>, <<97, 122>>, <<192, 214>>, <<216, 246>>, <<248, 442>>,
     <<444, 447>>, <<452, 659>>, <<661, 696>>, <<704, 705>>, <<736, 740>>,
     <<880, 883>>, <<886, 887>>, <<890, 893>>, <<904, 906>>, <<910, 929>>,
     <<931, 1013>>, <<1015, 1153>>, <<1162, 1327>>, <<1329, 1366>>,
     <<1376, 1416>>, <<4256, 4293>>, <<4304, 4346>>, <<4349, 4351>>,
     <<5024, 5109>>, <<5112, 5117>>, <<7296, 7304>>, <<7312, 7354>>,
     <<7357, 7359>>, <<7424, 7615>>, <<7680, 7957>>, <<7960, 7965>>,
     <<7968, 8005>>, <<8008, 8013>>, <<8016, 8023>>, <<8031, 8061>>,
     <<8064, 8116>>, <<8118, 8124>>, <<8130, 8132>>, <<8134, 8140>>,
     <<8144, 8147>>, <<8150, 8155>>, <<8160, 8172>>, <<8178, 8180>>,
     <<8182, 8188>>, <<8336, 8348>>, <<8458, 8467>>, <<8473, 8477>>,
     <<8490, 8493>>, <<8495, 8500>>, <<8508, 8511>>, <<8517, 8521>>,
     <<8544, 8575>>, <<8579, 8580>>, <<9398, 9449>>, <<11264, 11492>>,
     <<11499, 11502>>, <<11506, 11507>>, <<11520, 11557>>, <<42560, 42605>>,
     <<42624, 42653>>, <<42786, 42887>>, <<42891, 42894>>, <<42896, 42954>>,
     <<42960, 42961>>, <<42965, 42969>>, <<42997, 42998>>, <<43000, 43002>>,
     <<43824, 43866>>, <<43868, 43880>>, <<43888, 43967>>, <<64256, 64262>>,
     <<64275, 64279>>, <<65313, 65338>>, <<65345, 65370>>, <<66560, 66639>>,
     <<66736, 66771>>, <<66776, 66811>>, <<66928, 66938>>, <<66940, 66954>>,
     <<66956, 66962>>, <<66964, 66965>>, <<66967, 66977>>, <<66979, 66993>>,
     <<66995, 67001>>, <<67003, 67004>>, <<67459, 67461>>, <<67463, 67504>>,
     <<67506, 67514>>, <<68736, 68786>>, <<68800, 68850>>, <<71840, 71903>>,
     <<93760, 93823>>, <<119808, 119892>>, <<119894, 119964>>,
     <<119966, 119967>>, <<119973, 119974>>, <<119977, 119980>>,
     <<119982, 119993>>, <<119997, 120003>>, <<120005, 120069>>,
     <<120071, 120074>>, <<120077, 120084>>, <<120086, 120092>>,
     <<120094, 120121>>, <<120123, 120126>>, <<120128, 120132>>,
     <<120138, 120144>>, <<120146, 120485>>, <<120488, 120512>>,
     <<120514, 120538>>, <<120540, 120570>>, <<120572, 120596>>,
     <<120598, 120628>>, <<120630, 120654>>, <<120656, 120686>>,
     <<120688, 120712>>, <<120714, 120744>>, <<120746, 120770>>,
     <<120772, 120779>>, <<122624, 122633>>, <<122635, 122654>>,
     <<125184, 125251>>, <<127280, 127305>>, <<127312, 127337>>,
     <<127344, 127369>>}
CasedChars ==
    CasedSingles \cup UNION {r[1]..r[2] : r \in CasedRanges}

\* The case-ignorable code points (Unicode property Case_Ignorable).
CaseIgnorableSingles ==
    {39, 46, 58, 94, 96, 168, 173, 175, 180, 890, 903, 1369, 1375, 1471,
     1479, 1524, 1564, 1600, 1648, 1807, 1809, 2042, 2045, 2184, 2362, 2364,
     2381, 2417, 2433, 2492, 2509, 2558, 2620, 2641, 2677, 2748, 2765, 2817,
     2876, 2879, 2893, 2946, 3008, 3021, 3072, 3076, 3132, 3201, 3260, 3263,
     3270, 3405, 3457, 3530, 3542, 3633, 3761, 3782, 3893, 3895, 3897, 4038,
     4226, 4237, 4253, 4348, 6086, 6103, 6109, 6211, 6313, 6450, 6683, 6742,
     6752, 6754, 6783, 6823, 6964, 6972, 6978, 7142, 7149, 7405, 7412, 7544,
     8125, 8228, 8231, 8305, 8319, 11631, 11647, 11823, 12293, 12347, 40981,
     42508, 42623, 42864, 43010, 43014, 43019, 43052, 43263, 43443, 43471,
     43587, 43596, 43632, 43644, 43696, 43713, 43741, 43766, 44005, 44008,
     44013, 64286, 65043, 65106, 65109, 65279, 65287, 65294, 65306, 65342,
     65344, 65392, 65507, 66045, 66272, 68159, 69633, 69744, 69821, 69826,
     69837, 70003, 70095, 70196, 70206, 70367, 70464, 70726, 70750, 70842,
     71229, 71339, 71341, 71351, 71998, 72003, 72160, 72263, 72767, 73018,
     73031, 73109, 73111, 94031, 121461, 121476, 123566, 917505}
CaseIgnorableRanges ==
    {<<183, 184>>, <<688, 879>>, <<884, 885>>, <<900, 901>>, <<1155, 1161>>,
     <<1425, 1469>>, <<1473, 1474>>, <<1476, 1477>>, <<1536, 1541>>,
     <<1552, 1562>>, <<1611, 1631>>, <<1750, 1757>>, <<1759, 1768>>,
     <<1770, 1773>>, <<1840, 1866>>, <<1958, 1968>>, <<2027, 2037>>,
     <<2070, 2093>>, <<2137, 2139>>, <<2192, 2193>>, <<2200, 2207>>,
     <<2249, 2306>>, <<2369, 2376>>, <<2385, 2391>>, <<2402, 2403>>,
     <<2497, 2500>>, <<2530, 2531>>, <<2561, 2562>>, <<2625, 2626>>,
     <<2631, 2632>>, <<2635, 2637>>, <<2672, 2673>>, <<2689, 2690>>,
     <<2753, 2757>>, <<2759, 2760>>, <<2786, 2787>>, <<2810, 2815>>,
     <<2881, 2884>>, <<2901, 2902>>, <<2914, 2915>>, <<3134, 3136>>,
     <<3142, 3144>>, <<3146, 3149>>, <<3157, 3158>>, <<3170, 3171>>,
     <<3276, 3277>>, <<3298, 3299>>, <<3328, 3329>>, <<3387, 3388>>,
     <<3393, 3396>>, <<3426, 3427>>, <<3538, 3540>>, <<3636, 3642>>,
     <<3654, 3662>>, <<3764, 3772>>, <<3784, 3789>>, <<3864, 3865>>,
     <<3953, 3966>>, <<3968, 3972>>, <<3974, 3975>>, <<3981, 3991>>,
     <<3993, 4028>>, <<4141, 4144>>, <<4146, 4151>>, <<4153, 4154>>,
     <<4157, 4158>>, <<4184, 4185>>, <<4190, 4192>>, <<4209, 4212>>,
     <<4229, 4230>>, <<4957, 4959>>, <<5906, 5908>>, <<5938, 5939>>,
     <<5970, 5971>>, <<6002, 6003>>, <<6068, 6069>>, <<6071, 6077>>,
     <<6089, 6099>>, <<6155, 6159>>, <<6277, 6278>>, <<6432, 6434>>,
     <<6439, 6440>>, <<6457, 6459>>, <<6679, 6680>>, <<6744, 6750>>,
     <<6757, 6764>>, <<6771, 6780>>, <<6832, 6862>>, <<6912, 6915>>,
     <<6966, 6970>>, <<7019, 7027>>, <<7040, 7041>>, <<7074, 7077>>,
     <<7080, 7081>>, <<7083, 7085>>, <<7144, 7145>>, <<7151, 7153>>,
     <<7212, 7219>>, <<7222, 7223>>, <<7288, 7293>>, <<7376, 7378>>,
     <<7380, 7392>>, <<7394, 7400>>, <<7416, 7417>>, <<7468, 7530>>,
     <<7579, 7679>>, <<8127, 8129>>, <<8141, 8143>>, <<8157, 8159>>,
     <<8173, 8175>>, <<8189, 8190>>, <<8203, 8207>>, <<8216, 8217>>,
     <<8234, 8238>>, <<8288, 8292>>, <<8294, 8303>>, <<8336, 8348>>,
     <<8400, 8432>>, <<11388, 11389>>, <<11503, 11505>>, <<11744, 11775>>,
     <<12330, 12333>>, <<12337, 12341>>, <<12441, 12446>>, <<12540, 12542>>,
     <<42232, 42237>>, <<42607, 42610>>, <<42612, 42621>>, <<42652, 42655>>,
     <<42736, 42737>>, <<42752, 42785>>, <<42888, 42890>>, <<42994, 42996>>,
     <<43000, 43001>>, <<43045, 43046>>, <<43204, 43205>>, <<43232, 43249>>,
     <<43302, 43309>>, <<43335, 43345>>, <<43392, 43394>>, <<43446, 43449>>,
     <<43452, 43453>>, <<43493, 43494>>, <<43561, 43566>>, <<43569, 43570>>,
     <<43573, 43574>>, <<43698, 43700>>, <<43703, 43704>>, <<43710, 43711>>,
     <<43756, 43757>>, <<43763, 43764>>, <<43867, 43871>>, <<43881, 43883>>,
     <<64434, 64450>>, <<65024, 65039>>, <<65056, 65071>>, <<65438, 65439>>,
     <<65529, 65531>>, <<66422, 66426>>, <<67456, 67461>>, <<67463, 67504>>,
     <<67506, 67514>>, <<68097, 68099>>, <<68101, 68102>>, <<68108, 68111>>,
     <<68152, 68154>>, <<68325, 68326>>, <<68900, 68903>>, <<69291, 69292>>,
     <<69446, 69456>>, <<69506, 69509>>, <<69688, 69702>>, <<69747, 69748>>,
     <<69759, 69761>>, <<69811, 69814>>, <<69817, 69818>>, <<69888, 69890>>,
     <<69927, 69931>>, <<69933, 69940>>, <<70016, 70017>>, <<70070, 70078>>,
     <<70089, 70092>>, <<70191, 70193>>, <<70198, 70199>>, <<70371, 70378>>,
     <<70400, 70401>>, <<70459, 70460>>, <<70502, 70508>>, <<70512, 70516>>,
     <<70712, 70719>>, <<70722, 70724>>, <<70835, 70840>>, <<70847, 70848>>,
     <<70850, 70851>>, <<71090, 71093>>, <<71100, 71101>>, <<71103, 71104>>,
     <<71132, 71133>>, <<71219, 71226>>, <<71231, 71232>>, <<71344, 71349>>,
     <<71453, 71455>>, <<71458, 71461>>, <<71463, 71467>>, <<71727, 71735>>,
     <<71737, 71738>>, <<71995, 71996>>, <<72148, 72151>>, <<72154, 72155>>,
     <<72193, 72202>>, <<72243, 72248>>, <<72251, 72254>>, <<72273, 72278>>,
     <<72281, 72283>>, <<72330, 72342>>, <<72344, 72345>>, <<72752, 72758>>,
     <<72760, 72765>>, <<72850, 72871>>, <<72874, 72880>>, <<72882, 72883>>,
     <<72885, 72886>>, <<73009, 73014>>, <<73020, 73021>>, <<73023, 73029>>,
     <<73104, 73105>>, <<73459, 73460>>, <<78896, 78904>>, <<92912, 92916>>,
     <<92976, 92982>>, <<92992, 92995>>, <<94095, 94111>>, <<94176, 94177>>,
     <<94179, 94180>>, <<110576, 110579>>, <<110581, 110587>>,
     <<110589, 110590>>, <<113821, 113822>>, <<113824, 113827>>,
     <<118528, 118573>>, <<118576, 118598>>, <<119143, 119145>>,
     <<119155, 119170>>, <<119173, 119179>>, <<119210, 119213>>,
     <<119362, 119364>>, <<121344, 121398>>, <<121403, 121452>>,
     <<121499, 121503>>, <<121505, 121519>>, <<122880, 122886>>,
     <<122888, 122904>>, <<122907, 122913>>, <<122915, 122916>>,
     <<122918, 122922>>, <<123184, 123197>>, <<123628, 123631>>,
     <<125136, 125142>>, <<125252, 125259>>, <<127995, 127999>>,
     <<917536, 917631>>, <<917760, 917999>>}
CaseIgnorableChars ==
    CaseIgnorableSingles \cup UNION {r[1]..r[2] : r \in CaseIgnorableRanges}

\* The code points re takes for cased: those whose simple lower-case or
\* simple upper-case mapping is another code point.
SreCasedSingles ==
    {181, 447, 601, 611, 623, 629, 637, 640, 658, 837, 895, 902, 908, 4295,
     4301, 7545, 7549, 7566, 7838, 8025, 8027, 8029, 8126, 8486, 8498, 8526,
     11559, 11565, 43859}
SreCasedRanges ==
    {<<65, 90>>, <<97, 122>>, <<192, 214>>, <<216, 246>>, <<248, 311>>,
     <<313, 396>>, <<398, 410>>, <<412, 425>>, <<428, 441>>, <<444, 445>>,
     <<452, 544>>, <<546, 563>>, <<570, 596>>, <<598, 599>>, <<603, 604>>,
     <<608, 609>>, <<613, 614>>, <<616, 620>>, <<625, 626>>, <<642, 643>>,
     <<647, 652>>, <<669, 670>>, <<880, 883>>, <<886, 887>>, <<891, 893>>,
     <<904, 906>>, <<910, 929>>, <<931, 977>>, <<981, 1013>>,
     <<1015, 1019>>, <<1021, 1153>>, <<1162, 1327>>, <<1329, 1366>>,
     <<1377, 1415>>, <<4256, 4293>>, <<4304, 4346>>, <<4349, 4351>>,
     <<5024, 5109>>, <<5112, 5117>>, <<7296, 7304>>, <<7312, 7354>>,
     <<7357, 7359>>, <<7680, 7835>>, <<7840, 7957>>, <<7960, 7965>>,
     <<7968, 8005>>, <<8008, 8013>>, <<8016, 8023>>, <<8031, 8061>>,
     <<8064, 8116>>, <<8118, 8124>>, <<8130, 8132>>, <<8134, 8140>>,
     <<8144, 8147>>, <<8150, 8155>>, <<8160, 8172>>, <<8178, 8180>>,
     <<8182, 8188>>, <<8490, 8491>>, <<8544, 8575>>, <<8579, 8580>>,
     <<9398, 9449>>, <<11264, 11376>>, <<11378, 11379>>, <<11381, 11382>>,
     <<11390, 11491>>, <<11499, 11502>>, <<11506, 11507>>, <<11520, 11557>>,
     <<42560, 42605>>, <<42624, 42651>>, <<42786, 42799>>, <<42802, 42863>>,
     <<42873, 42887>>, <<42891, 42893>>, <<42896, 42900>>, <<42902, 42926>>,
     <<42928, 42954>>, <<42960, 42961>>, <<42966, 42969>>, <<42997, 42998>>,
     <<43888, 43967>>, <<64256, 64262>>, <<64275, 64279>>, <<65313, 65338>>,
     <<65345, 65370>>, <<66560, 66639>>, <<66736, 66771>>, <<66776, 66811>>,
     <<66928, 66938>>, <<66940, 66954>>, <<66956, 66962>>, <<66964, 66965>>,
     <<66967, 66977>>, <<66979, 66993>>, <<66995, 67001>>, <<67003, 67004>>,
     <<68736, 68786>>, <<68800, 68850>>, <<71840, 71903>>, <<93760, 93823>>,
     <<125184, 125251>>}
SreCasedChars ==
    SreCasedSingles \cup UNION {r[1]..r[2] : r \in SreCasedRanges}

\* re._casefix._EXTRA_CASES: the lower-case code points that re.IGNORECASE
\* takes for equal although neither is the lower case of the other.
ExtraCases ==
    {<<105, {305}>>, <<115, {383}>>, <<181, {956}>>, <<305, {105}>>,
     <<383, {115}>>, <<837, {953, 8126}>>, <<912, {8147}>>, <<944, {8163}>>,
     <<946, {976}>>, <<949, {1013}>>, <<952, {977}>>, <<953, {837, 8126}>>,
     <<954, {1008}>>, <<956, {181}>>, <<960, {982}>>, <<961, {1009}>>,
     <<962, {963}>>, <<963, {962}>>, <<966, {981}>>, <<976, {946}>>,
     <<977, {952}>>, <<981, {966}>>, <<982, {960}>>, <<1008, {954}>>,
     <<1009, {961}>>, <<1013, {949}>>, <<1074, {7296}>>, <<1076, {7297}>>,
     <<1086, {7298}>>, <<1089, {7299}>>, <<1090, {7300, 7301}>>,
     <<1098, {7302}>>, <<1123, {7303}>>, <<7296, {1074}>>, <<7297, {1076}>>,
     <<7298, {1086}>>, <<7299, {1089}>>, <<7300, {1090, 7301}>>,
     <<7301, {1090, 7300}>>, <<7302, {1098}>>, <<7303, {1123}>>,
     <<7304, {42571}>>, <<7777, {7835}>>, <<7835, {7777}>>,
     <<8126, {837, 953}>>, <<8147, {912}>>, <<8163, {944}>>,
     <<42571, {7304}>>, <<64261, {64262}>>, <<64262, {64261}>>}
extra_cases(lo) == UNION {e[2] : e \in {x \in ExtraCases : x[1] = lo}}

\* The character at position i of s is a capital sigma that ends a word: a
\* cased character precedes it and no cased character follows it, the
\* case-ignorable characters in between left aside.
final_sigma(s, i) ==
    LET before == {j \in 1..(i - 1) : s[j] \notin CaseIgnorableChars}
        after == {j \in (i + 1)..Len(s) : s[j] \notin CaseIgnorableChars}
        last == CHOOSE j \in before : \A k \in before : k <= j
        next == CHOOSE j \in after : \A k \in after : j <= k
    IN /\ before # {}
       /\ s[last] \in CasedChars
       /\ after = {} \/ s[next] \notin CasedChars

\* str.lower(): every character is replaced by its lower case; a capital
\* sigma becomes the final or the medial small sigma, and the dotted
\* capital I becomes two characters.
lower_char(s, i) ==
    IF s[i] = 931 THEN (IF final_sigma(s, i) THEN <<962>> ELSE <<963>>)
    ELSE IF s[i] = 304 THEN <<105, 775>>
    ELSE <<tolower(s[i])>>
RECURSIVE lower_from(_, _)
lower_from(s, i) ==
    IF i > Len(s) THEN <<>> ELSE lower_char(s, i) \o lower_from(s, i + 1)
lower(s) == lower_from(s, 1)

\* A literal character p of a pattern compiled with re.IGNORECASE matches
\* the character ch: an uncased p matches itself only, a cased p matches
\* the characters whose lower case is the lower case of p or one of its
\* extra cases.
re_literal(p, ch) ==
    IF p \notin SreCasedChars THEN ch = p
    ELSE tolower(ch) \in ({tolower(p)} \cup extra_cases(tolower(p)))

\* One character of a pattern: '.' matches every character but the newline.
re_atom(p, ch) == IF p = 46 THEN ch # 10 ELSE re_literal(p, ch)

\* re.match(reg, path, flags=re.IGNORECASE) for the regular expressions
\* made of literal characters and '.', each one alone or followed by one
\* '*': the pattern matches a prefix of the path.
RECURSIVE re_match(_, _)
re_match(reg, path) ==
    IF reg = <<>> THEN TRUE
    ELSE IF Len(reg) >= 2 /\ reg[2] = 42
    THEN \/ re_match(SubSeq(reg, 3, Len(reg)), path)
         \/ /\ path # <<>>
            /\ re_atom(reg[1], path[1])
            /\ re_match(reg, Tail(path))
    ELSE /\ path # <<>>
         /\ re_atom(reg[1], path[1])
         /\ re_match(Tail(reg), Tail(path))

\* flask_cors try_match: a regular expression is matched without regard to
\* case, any other pattern is compared with the path, both in lower case.
try_match(path, reg) ==
    IF probably_regex(reg) THEN re_match(reg, path)
    ELSE lower(path) = lower(reg)

\* flask_cors parse_resources on the CORS_RESOURCES setting of the config
\* (the default '/*' when it is not set or None): a str is one pattern, a
\* number is rejected with ValueError.
parse_resources(cfg) ==
    IF ~DictHas(cfg, CORS_RESOURCES) \/ DictGet(cfg, CORS_RESOURCES) = PyNone
    THEN [exc |-> "none", resources |-> <<re_fix(default_resources)>>]
    ELSE IF DictGet(cfg, CORS_RESOURCES).type = "str"
    THEN [exc |-> "none",
          resources |-> <<re_fix(DictGet(cfg, CORS_RESOURCES).str)>>]
    ELSE [exc |-> "ValueError", resources |-> <<>>]

\* flask_cors.CORS(app): reads the CORS_RESOURCES setting of app.config as
\* it is at that moment, and installs cors_after_request, bound to the
\* parsed resources, as an after_request function of the application.
\* Of the CORS_* settings, CORS_RESOURCES is the one modelled.
CORS(h, a) ==
    LET r == parse_resources(h[a.config])
    IN [exc |-> r.exc,
        app |-> IF r.exc # "none" THEN a
                ELSE [a EXCEPT !.after_request_funcs =
                         Append(@, [name |-> "cors_after_request",
                                    resources |-> r.resources])]]

\* The route collection of app.routes.
api_bp == [name |-> "api", rules |-> {graph_path}]

\* Variant: the blueprint is not registered.
register_blueprint_skip(a, bp) == [exc |-> "none", app |-> a]

\* app.register_blueprint(bp): records the blueprint under its name and adds
\* its rules to the url map of the application; a name that is registered
\* already is rejected with ValueError.
register_blueprint(a, bp) ==
    IF \E i \in 1..Len(a.blueprints) : a.blueprints[i] = bp.name
    THEN [exc |-> "ValueError", app |-> a]
    ELSE [exc |-> "none",
          app |-> [a EXCEPT !.blueprints = Append(@, bp.name),
                            !.url_map = @ \cup {[rule |-> r,
                                                 endpoint |-> bp.name]
                                                : r \in bp.rules}]]

\* cors_after_request: the response gets the CORS header when a pattern of
\* the resources matches the path of the request.
cors_after_request(resources, path, resp) ==
    IF \E i \in 1..Len(resources) : try_match(path, resources[i])
    THEN [resp EXCEPT !.headers = @ \cup {"Access-Control-Allow-Origin"}]
    ELSE resp

\* The response to a request for `path` passes through the after_request
\* functions of the application.
RECURSIVE run_after_request(_, _, _)
run_after_request(funcs, path, resp) ==
    IF funcs = <<>> THEN resp
    ELSE run_after_request(Tail(funcs), path,
            cors_after_request(Head(funcs).resources, path, resp))
after_request(a, path, resp) ==
    run_after_request(a.after_request_funcs, path, resp)
match(a, path) == \E r \in a.url_map : r.rule = path

(* ------------------------------ state --------------------------------- *)
VARIABLES
    heap,         \* identity -> items of every live dict
    apps,         \* the instances create_app has returned, in order
    pc,           \* position of the create_app call in progress
    test_config,  \* argument of the call in progress (or of the last call)
    app,          \* local variable `app` of the call in progress
    steps,        \* statements the call in progress has executed
    outcome,      \* "none", "running", "returned" or the exception raised
    ncalls,       \* create_app calls made so far
    overlay0,     \* items of the overlay dict when the call was made
    handlers      \* request handlers: what each is doing, its last response

vars == <<heap, apps, pc, test_config, app, steps, outcome, ncalls,
          overlay0, handlers>>

Handlers == 1..NumHandlers
\* 'u1', 'u2'
Users == {PyStr(<<117, 49>>), PyStr(<<117, 50>>)}
Paths == {graph_path, GRAPH_path, missing_path}
NoResponse == [status |-> 0, headers |-> {}, body |-> 0]
IdleHandler == [pc |-> "idle", app |-> 0, path |-> <<>>, user |-> PyNone,
                read |-> 0, response |-> NoResponse]

(* --------------------------- the callers' inputs ---------------------- *)
Keys == {SECRET_KEY, secret_key, A_sharp_s, E_acute, PyInt(1), bytes_key,
         CORS_RESOURCES}
\* The values an overlay gives a key: a good and an empty signing key, a
\* path and a number for CORS_RESOURCES.
ValuesOf(k) ==
    CASE k = SECRET_KEY -> {empty_str, prod_secret}
      [] k = CORS_RESOURCES -> {PyStr(graph_path), PyInt(5)}
      [] OTHER -> {prod_secret}
Entries == UNION {{<<k, v>> : v \in ValuesOf(k)} : k \in Keys}
Items(n) == {d \in [1..n -> Entries] :
               \A i, j \in 1..n : d[i][1] = d[j][1] => i = j}
Scalars == {[type |-> "NoneType", int |-> 0, str |-> <<>>, items |-> <<>>],
            [type |-> "int", int |-> 0, str |-> <<>>, items |-> <<>>],
            [type |-> "int", int |-> 5, str |-> <<>>, items |-> <<>>],
            [type |-> "str", int |-> 0, str |-> <<>>, items |-> <<>>],
            [type |-> "str", int |-> 0, str |-> dev.str, items |-> <<>>]}
\* Every overlay a caller passes: None, a number, a str, or a dict of at
\* most MaxOverlayLen entries.
Overlays == Scalars \cup
    {[type |-> "dict", int |-> 0, str |-> <<>>, items |-> d] :
        d \in UNION {Items(n) : n \in 0..MaxOverlayLen}}
\* The overlays of the runs that also serve requests: None, a number that
\* is no mapping, the empty dict, a dict that sets SECRET_KEY, and dicts
\* that set CORS_RESOURCES to a path and to a number.
ServeOverlays ==
    {[type |-> "NoneType", int |-> 0, str |-> <<>>, items |-> <<>>],
     [type |-> "int", int |-> 5, str |-> <<>>, items |-> <<>>]} \cup
    {[type |-> "dict", int |-> 0, str |-> <<>>, items |-> d] :
        d \in {<<>>, << <<SECRET_KEY, prod_secret>> >>,
               << <<CORS_RESOURCES, PyStr(graph_path)>> >>,
               << <<CORS_RESOURCES, PyInt(5)>> >>}}

Init ==
    /\ heap = <<>>
    /\ apps = <<>>
    /\ pc = "idle"
    /\ test_config = PyNone
    /\ app = NoApp
    /\ steps = <<>>
    /\ outcome = "none"
    /\ ncalls = 0
    /\ overlay0 = <<>>
    /\ handlers = [h \in Handlers |-> IdleHandler]

(* ------------------------------ create_app ---------------------------- *)
\* A caller calls create_app(arg).  The dict it passes is its own object;
\* it drops the overlay of its previous call.  At most `limit` calls are made.
Call(args, limit) ==
    /\ pc \in {"idle", "done"}
    /\ ncalls < limit
    /\ \E arg \in args :
         LET h0 == IF test_config.type = "dict"
                   THEN Free(heap, {test_config.ref}) ELSE heap
         IN /\ heap' = IF arg.type = "dict" THEN Alloc(h0, arg.items) ELSE h0
            /\ test_config' = CASE arg.type = "dict" -> PyDict(NewId(h0))
                                [] arg.type = "int" -> PyInt(arg.int)
                                [] arg.type = "str" -> PyStr(arg.str)
                                [] OTHER -> PyNone
            /\ overlay0' = arg.items
    /\ pc' = "L7"
    /\ app' = NoApp
    /\ steps' = <<>>
    /\ outcome' = "running"
    /\ ncalls' = ncalls + 1
    /\ UNCHANGED <<apps, handlers>>

\* app = Flask(__name__)
L7_Flask ==
    /\ pc = "L7"
    /\ heap' = Flask(heap).heap
    /\ app' = Flask(heap).app
    /\ steps' = Append(steps, "Flask")
    /\ pc' = "L11"
    /\ UNCHANGED <<apps, test_config, outcome, ncalls, overlay0, handlers>>

\* Variant: one module-level dict shared by every instance.
new_user_graphs_shared(h, a) ==
    [heap |-> IF 99 \in DOMAIN h THEN h ELSE h @@ (99 :> <<>>),
     app |-> [a EXCEPT !.user_graphs = 99]]

\* app.user_graphs = {} : a new, empty dict object.
new_user_graphs(h, a) ==
    [heap |-> Alloc(h, <<>>), app |-> [a EXCEPT !.user_graphs = NewId(h)]]

L11_user_graphs ==
    /\ pc = "L11"
    /\ heap' = new_user_graphs(heap, app).heap
    /\ app' = new_user_graphs(heap, app).app
    /\ steps' = Append(steps, "user_graphs")
    /\ pc' = "L14"
    /\ UNCHANGED <<apps, test_config, outcome, ncalls, overlay0, handlers>>

\* Variant: no default is loaded.
default_kwargs_missing == <<>>

\* The keyword arguments of the first from_mapping call.
default_kwargs == << <<SECRET_KEY, dev>> >>

\* app.config.from_mapping(SECRET_KEY='dev')
L14_load_defaults ==
    /\ pc = "L14"
    /\ heap' = from_mapping(heap, app.config, PyNone, default_kwargs).heap
    /\ steps' = Append(steps, "defaults")
    /\ pc' = "L19"
    /\ UNCHANGED <<apps, test_config, app, outcome, ncalls, overlay0,
                   handlers>>

\* if test_config:
L19_if_test_config ==
    /\ pc = "L19"
    /\ pc' = IF Truthy(heap, test_config) THEN "L20" ELSE "L23"
    /\ UNCHANGED <<heap, apps, test_config, app, steps, outcome, ncalls,
                   overlay0, handlers>>

\* Variant: CORS(app) sits in an else branch, skipped after a merge.
L20_merge_skip_CORS ==
    /\ pc = "L20"
    /\ LET r == from_mapping(heap, app.config, test_config, <<>>)
       IN IF r.exc = "none"
          THEN /\ heap' = r.heap
               /\ steps' = Append(steps, "overlay")
               /\ pc' = "L26"
               /\ UNCHANGED <<app, outcome>>
          ELSE /\ heap' = Free(r.heap, {app.config, app.user_graphs})
               /\ app' = NoApp
               /\ outcome' = r.exc
               /\ pc' = "done"
               /\ UNCHANGED steps
    /\ UNCHANGED <<apps, test_config, ncalls, overlay0, handlers>>

\* app.config.from_mapping(test_config); an exception leaves create_app and
\* the application object under construction is dropped.
L20_merge_overlay ==
    /\ pc = "L20"
    /\ LET r == from_mapping(heap, app.config, test_config, <<>>)
       IN IF r.exc = "none"
          THEN /\ heap' = r.heap
               /\ steps' = Append(steps, "overlay")
               /\ pc' = "L23"
               /\ UNCHANGED <<app, outcome>>
          ELSE /\ heap' = Free(r.heap, {app.config, app.user_graphs})
               /\ app' = NoApp
               /\ outcome' = r.exc
               /\ pc' = "done"
               /\ UNCHANGED steps
    /\ UNCHANGED <<apps, test_config, ncalls, overlay0, handlers>>

\* CORS(app); an exception leaves create_app and the application object
\* under construction is dropped.
L23_CORS ==
    /\ pc = "L23"
    /\ LET r == CORS(heap, app)
       IN IF r.exc = "none"
          THEN /\ app' = r.app
               /\ steps' = Append(steps, "CORS")
               /\ pc' = "L26"
               /\ UNCHANGED <<heap, outcome>>
          ELSE /\ heap' = Free(heap, {app.config, app.user_graphs})
               /\ app' = NoApp
               /\ outcome' = r.exc
               /\ pc' = "done"
               /\ UNCHANGED steps
    /\ UNCHANGED <<apps, test_config, ncalls, overlay0, handlers>>

\* app.register_blueprint(api_bp); the application is new, so no name is
\* registered yet, and an exception would leave create_app as the others do.
L26_register_blueprint ==
    /\ pc = "L26"
    /\ LET r == register_blueprint(app, api_bp)
       IN IF r.exc = "none"
          THEN /\ app' = r.app
               /\ steps' = Append(steps, "register_blueprint")
               /\ pc' = "L28"
               /\ UNCHANGED <<heap, outcome>>
          ELSE /\ heap' = Free(heap, {app.config, app.user_graphs})
               /\ app' = NoApp
               /\ outcome' = r.exc
               /\ pc' = "done"
               /\ UNCHANGED steps
    /\ UNCHANGED <<apps, test_config, ncalls, overlay0, handlers>>

\* return app
L28_return ==
    /\ pc = "L28"
    /\ apps' = Append(apps, app)
    /\ app' = NoApp
    /\ steps' = Append(steps, "return")
    /\ outcome' = "returned"
    /\ pc' = "done"
    /\ UNCHANGED <<heap, test_config, ncalls, overlay0, handlers>>

create_app(args, limit) ==
    \/ Call(args, limit)
    \/ L7_Flask
    \/ L11_user_graphs
    \/ L14_load_defaults
    \/ L19_if_test_config
    \/ L20_merge_overlay
    \/ L23_CORS
    \/ L26_register_blueprint
    \/ L28_return

(* --------------------------- request handling ------------------------- *)
\* Variant: a lock on the store of the instance, held by a running view.
view_can_start_locked(hs, h, a) ==
    \A g \in DOMAIN hs : g # h => ~(hs[g].pc = "view" /\ hs[g].app = a)

\* A view of the route collection may start whatever the other handlers
\* are doing: the store is a plain dict and nothing guards it.
view_can_start(hs, h, a) == TRUE

\* current_app.user_graphs.get(user, 0)
store_get(h, a, u) ==
    IF DictHas(h[a.user_graphs], u) THEN DictGet(h[a.user_graphs], u).int
    ELSE 0

\* Handler h receives a request for `path` on instance a.  A path with no
\* rule is answered 404; otherwise the view starts and reads the graph
\* value of user u from the store of the instance.
Request(h, a, path, u) ==
    /\ handlers[h].pc = "idle"
    /\ a \in 1..Len(apps)
    /\ IF match(apps[a], path)
       THEN /\ view_can_start(handlers, h, a)
            /\ store_get(heap, apps[a], u) < MaxGraphValue
            /\ handlers' = [handlers EXCEPT ![h] =
                   [pc |-> "view", app |-> a, path |-> path, user |-> u,
                    read |-> store_get(heap, apps[a], u),
                    response |-> NoResponse]]
       ELSE handlers' = [handlers EXCEPT ![h] =
                   [pc |-> "idle", app |-> a, path |-> path, user |-> PyNone,
                    read |-> 0, response |-> after_request(apps[a], path,
                        [status |-> 404, headers |-> {}, body |-> 0])]]
    /\ UNCHANGED <<heap, apps, pc, test_config, app, steps, outcome, ncalls,
                   overlay0>>

\* The view stores a value derived from the one it read and responds.
ViewWrite(h) ==
    /\ handlers[h].pc = "view"
    /\ LET a == apps[handlers[h].app]
           v == handlers[h].read + 1
       IN /\ heap' = [heap EXCEPT ![a.user_graphs] =
                         DictSet(@, handlers[h].user, PyInt(v))]
          /\ handlers' = [handlers EXCEPT ![h].pc = "idle",
                 ![h].response = after_request(a, handlers[h].path,
                     [status |-> 200, headers |-> {}, body |-> v])]
    /\ UNCHANGED <<apps, pc, test_config, app, steps, outcome, ncalls,
                   overlay0>>

(* --------------------------- specifications --------------------------- *)
\* Construction alone, over every overlay.
Next == create_app(Overlays, MaxCalls)

Spec == Init /\ [][Next]_vars

\* A test run: several instances are created, and one test client sends
\* its requests to them one after the other.
\* The client is logged in as one user.
TestClient == CHOOSE h \in Handlers : \A g \in Handlers : h <= g
TestUser == PyStr(<<117, 49>>)
NextServe ==
    \/ create_app(ServeOverlays, MaxCalls)
    \/ \E a \in 1..MaxCalls, path \in Paths :
          Request(TestClient, a, path, TestUser)
    \/ ViewWrite(TestClient)

SpecServe == Init /\ [][NextServe]_vars

\* A serving process: the entry point creates its one instance, whose
\* requests are then handled concurrently.
NextProcess ==
    \/ create_app(ServeOverlays, 1)
    \/ \E h \in Handlers, path \in Paths, u \in Users :
          Request(h, 1, path, u)
    \/ \E h \in Handlers : ViewWrite(h)

SpecProcess == Init /\ [][NextProcess]_vars

(* ------------------------------ properties ---------------------------- *)
\* The call has returned and its instance is the last of apps.
Returned == pc = "done" /\ outcome = "returned"
LastApp == apps[Len(apps)]
LastConfig == heap[LastApp.config]
ConfigIs(cfg, k, v) == DictHas(cfg, k) /\ DictGet(cfg, k) = v

\* C1: when create_app returns for an overlay dict that has a SECRET_KEY
\* entry, the SECRET_KEY of the instance's config is the overlay's value.
C1_OverlaySecretKeyWins ==
    (Returned /\ test_config.type = "dict" /\ DictHas(overlay0, SECRET_KEY))
        => ConfigIs(LastConfig, SECRET_KEY, DictGet(overlay0, SECRET_KEY))

C1_Witness ==
    /\ Returned /\ test_config.type = "dict"
    /\ ConfigIs(overlay0, SECRET_KEY, empty_str)
    /\ ConfigIs(LastConfig, SECRET_KEY, empty_str)

\* C2: when create_app returns for a call without overlay (None), the
\* SECRET_KEY of the instance's config is 'dev'.
C2_NoOverlayKeepsDev ==
    (Returned /\ test_config.type = "NoneType")
        => ConfigIs(LastConfig, SECRET_KEY, dev)

C2_Witness ==
    /\ Returned /\ test_config.type = "NoneType"
    /\ ConfigIs(LastConfig, SECRET_KEY, dev)

\* C3: when create_app returns for an overlay dict without SECRET_KEY entry
\* (the empty dict included), the SECRET_KEY of the config is 'dev'.
C3_PartialOverlayKeepsDev ==
    (Returned /\ test_config.type = "dict" /\ ~DictHas(overlay0, SECRET_KEY))
        => ConfigIs(LastConfig, SECRET_KEY, dev)

C3_Witness ==
    /\ Returned /\ test_config.type = "dict"
    /\ DictHas(overlay0, E_acute) /\ DictHas(overlay0, secret_key)
    /\ ConfigIs(LastConfig, SECRET_KEY, dev)

\* C4: a returned instance starts with an empty user_graphs store that is
\* no store of an earlier instance, two instances never have the same
\* store object, the store of an instance stays alive, and it changes only
\* by the write of a view running on that instance.
C4_StoresDistinct ==
    \A i, j \in 1..Len(apps) :
        /\ apps[i].user_graphs \in DOMAIN heap
        /\ i # j => apps[i].user_graphs # apps[j].user_graphs
C4_StoreStep ==
    /\ Len(apps') > Len(apps) =>
          /\ heap'[apps'[Len(apps')].user_graphs] = <<>>
          /\ \A i \in 1..Len(apps) :
                apps[i].user_graphs # apps'[Len(apps')].user_graphs
    /\ \A i \in 1..Len(apps) :
          /\ apps[i].user_graphs \in DOMAIN heap'
          /\ heap'[apps[i].user_graphs] # heap[apps[i].user_graphs]
             => \E h \in Handlers : /\ handlers[h].pc = "view"
                                    /\ handlers[h].app = i
                                    /\ handlers'[h].pc = "idle"
C4_FreshDistinctStores == [](C4_StoresDistinct) /\ [][C4_StoreStep]_vars

C4_Witness ==
    /\ Len(apps) = 2
    /\ heap[apps[1].user_graphs] # <<>>
    /\ heap[apps[2].user_graphs] = <<>>

\* C5 as stated: every entry of the overlay dict is in the config of the
\* returned instance with the overlay's value.
C5_EveryEntryPresent ==
    (Returned /\ test_config.type = "dict")
        => \A i \in 1..Len(overlay0) :
              ConfigIs(LastConfig, overlay0[i][1], overlay0[i][2])

\* C5 amended: the entries of the overlay dict whose key is upper case are
\* in the config of the returned instance with the overlay's value, and the
\* entries whose key is not upper case are not in the config.
C5_UpperEntriesPresent ==
    (Returned /\ test_config.type = "dict")
        => \A i \in 1..Len(overlay0) :
              IF isupper(overlay0[i][1].str)
              THEN ConfigIs(LastConfig, overlay0[i][1], overlay0[i][2])
              ELSE ~DictHas(LastConfig, overlay0[i][1])

C5_Witness ==
    /\ Returned /\ test_config.type = "dict"
    /\ ConfigIs(overlay0, A_sharp_s, prod_secret)
    /\ ConfigIs(overlay0, E_acute, prod_secret)
    /\ ConfigIs(LastConfig, E_acute, prod_secret)
    /\ ~DictHas(LastConfig, A_sharp_s)

\* C6: every returned instance has the blueprint api_bp registered exactly
\* once and a rule for each of its paths, and a request for such a path is
\* never answered 404: its view runs and answers.
C6_BlueprintRegisteredOnce ==
    /\ \A i \in 1..Len(apps) :
          /\ Cardinality({j \in 1..Len(apps[i].blueprints) :
                            apps[i].blueprints[j] = api_bp.name}) = 1
          /\ \A r \in api_bp.rules : match(apps[i], r)
    /\ \A h \in Handlers :
          handlers[h].path \in api_bp.rules =>
             \/ handlers[h].pc = "view"
             \/ handlers[h].response.status = 200

C6_Witness ==
    \E h \in Handlers : /\ handlers[h].path \in api_bp.rules
                        /\ handlers[h].pc = "idle"
                        /\ handlers[h].response.status = 200

\* C7 as stated: every create_app call ends by returning an instance.
C7_AlwaysReturns == pc = "done" => outcome = "returned"

\* C7 amended: create_app catches nothing.  A call returns an instance
\* exactly when the overlay is falsy (None, zero, the empty str, an empty
\* dict) or is a dict whose keys are str or bytes and whose CORS_RESOURCES,
\* when set, is a str; the other values are not looked at.  A non-zero
\* number makes the merge raise TypeError, a non-empty str ValueError, a
\* dict with a number as key AttributeError; a dict that merges and sets
\* CORS_RESOURCES to a number makes CORS(app) raise ValueError.
C7_KeysMerge ==
    /\ test_config.type = "dict"
    /\ \A i \in 1..Len(overlay0) : overlay0[i][1].type \in {"str", "bytes"}
C7_BadResources ==
    \E i \in 1..Len(overlay0) : /\ overlay0[i][1] = CORS_RESOURCES
                                /\ overlay0[i][2].type = "int"
C7_Mergeable ==
    \/ test_config.type = "NoneType"
    \/ test_config.type = "int" /\ test_config.int = 0
    \/ test_config.type = "str" /\ test_config.str = <<>>
    \/ C7_KeysMerge /\ ~C7_BadResources
C7_ReturnsIffMergeable ==
    pc = "done" =>
        /\ outcome = "returned" <=> C7_Mergeable
        /\ outcome \in {"returned", "TypeError", "ValueError",
                       "AttributeError"}
        /\ outcome = "TypeError" <=> (test_config.type = "int"
                                      /\ test_config.int # 0)
        /\ outcome = "AttributeError" <=> (test_config.type = "dict"
                                           /\ ~C7_KeysMerge)
        /\ outcome = "ValueError" <=>
              \/ test_config.type = "str" /\ test_config.str # <<>>
              \/ C7_KeysMerge /\ C7_BadResources

C7_Witness ==
    /\ pc = "done" /\ outcome = "ValueError"
    /\ test_config.type = "dict" /\ DictHas(overlay0, bytes_key)
    /\ DictHas(overlay0, CORS_RESOURCES)
    /\ steps = <<"Flask", "user_graphs", "defaults", "overlay">>

\* The fixed order of the statements, the merge only for a truthy overlay.
C8_OverlayTruthy ==
    \/ test_config.type = "int" /\ test_config.int # 0
    \/ test_config.type = "str" /\ test_config.str # <<>>
    \/ test_config.type = "dict" /\ overlay0 # <<>>
C8_Order ==
    <<"Flask", "user_graphs", "defaults">>
      \o (IF C8_OverlayTruthy THEN <<"overlay">> ELSE <<>>)
      \o <<"CORS", "register_blueprint", "return">>
C8_HasHeader(h) ==
    "Access-Control-Allow-Origin" \in handlers[h].response.headers

C9_NoLock ==
    \A h1, h2 \in Handlers :
        (/\ h1 # h2
         /\ handlers[h1].pc = "view"
         /\ handlers[h2].pc = "idle"
         /\ store_get(heap, apps[handlers[h1].app], handlers[h1].user)
               < MaxGraphValue)
        => ENABLED Request(h2, handlers[h1].app, handlers[h1].path,
                           handlers[h1].user)

\* Two views have both answered with the value 1 for the same user of the
\* same instance and the store holds 1: one of the two writes is lost.
C9_LostUpdate ==
    \E h1, h2 \in Handlers :
        /\ h1 # h2
        /\ handlers[h1].pc = "idle" /\ handlers[h2].pc = "idle"
        /\ handlers[h1].response.status = 200
        /\ handlers[h2].response.status = 200
        /\ handlers[h1].app = handlers[h2].app
        /\ handlers[h1].user = handlers[h2].user
        /\ handlers[h1].response.body = 1
        /\ handlers[h2].response.body = 1
        /\ store_get(heap, apps[handlers[h1].app], handlers[h1].user) = 1

\* C10: the overlay dict of the caller keeps the items it had when the call
\* was made, and no statement of create_app changes an instance returned
\* earlier, its config or its user_graphs store.
C10_OverlayKept ==
    (pc # "idle" /\ test_config.type = "dict")
        => heap[test_config.ref] = overlay0
C10_EarlierKept ==
    pc' # pc =>
        \A i \in 1..Len(apps) :
            /\ apps'[i] = apps[i]
            /\ heap'[apps[i].config] = heap[apps[i].config]
            /\ heap'[apps[i].user_graphs] = heap[apps[i].user_graphs]
C10_OnlyNewInstanceChanged == [](C10_OverlayKept) /\ [][C10_EarlierKept]_vars

C10_Witness ==
    /\ Returned /\ Len(apps) = 2
    /\ test_config.type = "dict" /\ overlay0 # <<>>
    /\ heap[test_config.ref] = overlay0
    /\ heap[apps[1].user_graphs] # <<>>

====
